---- MODULE Spec2Model ----
(***************************************************************************)
(* Tap gesture synthesis of packages/core/src/events/TapEvent.ts:          *)
(* applyEvent installs capture listeners for mousedown, mouseup,           *)
(* touchstart, touchmove, touchend, click and keyup on the global target   *)
(* and dispatches tapstart / tapend / tap TapEvents.                       *)
(* The lane geometry of packages/elements/src/heatmap/helpers/track.ts is  *)
(* modelled at the end of the operators.                                   *)
(*                                                                         *)
(* Arrays are 1-indexed here: JavaScript's path[0] is path[1].             *)
(* An optional value (undefined or a value) is the sequence <<>> or <<v>>. *)
(***************************************************************************)
EXTENDS Integers, Sequences, FiniteSets, TLC

VARIABLES
  isIE,        \* line 4: the user agent is Trident
  props,       \* the on-event properties of the installation target
  insts,       \* one record of closure variables per applyEvent call
  found,       \* per applyEvent call, the target's properties as it found them
  positions,   \* line 11: module-level position snapshot (optional)
  metaKeys,    \* line 12: module-level modifier snapshot (optional)
  hist,        \* the latest native events, each with what it dispatched
  track,       \* a Track of heatmap/helpers/track.ts
  hit          \* the last hitTest call on it: its argument and its result

vars == <<isIE, props, insts, found, positions, metaKeys, hist, track, hit>>

(***************************************************************************)
(* Bounds                                                                  *)
(***************************************************************************)
\* how many times applyEvent may be called on the target
MaxInstalls == 2
\* touch identifiers are 0..MaxTouchId
MaxTouchId == 1

\* how many native events a run of SpecRun has
MaxEvents == 3
\* a Track is initialised with trackSize in 1..MaxTrackSize and laneCount in
\* 1..MaxLanes; margins are 0..MaxMarginHalves half pixels
MaxTrackSize == 7
MaxLanes == 4
MaxMarginHalves == 3

(***************************************************************************)
(* The document the events travel through: composedPath() of an event on   *)
(* an element is the element, its ancestors, the document and the window.  *)
(***************************************************************************)
Window == "window"
Document == "document"
\* divA: <div role=button>; btnB: <button role=button>; spanC: <span> in divA
Elements == {"divA", "btnB", "spanC"}
\* the element the events of SpecLoad are targeted at
LoadElements == {"divA"}

ParentOf(n) ==
  CASE n = "spanC" -> "divA"
    [] n = "divA" -> Document
    [] n = "btnB" -> Document
    [] n = Document -> Window

RECURSIVE ComposedPath(_)
ComposedPath(n) ==
  IF n = Window THEN <<Window>> ELSE <<n>> \o ComposedPath(ParentOf(n))

\* (node as Node).nodeType === Node.ELEMENT_NODE
IsElementNode(n) == n \in Elements

\* tapTarget instanceof HTMLElement
IsHTMLElement(n) == n \in Elements

\* matches(tapTarget, '[role=button]')
MatchesRoleButton(n) == n \in {"divA", "btnB"}

\* matches(tapTarget, 'button,a,input[type=button],input[type=submit]')
MatchesNative(n) == n = "btnB"

\* The page's own listeners: a TapEvent of this type dispatched on this
\* target has preventDefault() called on it before dispatchEvent returns.
PageCancels(type, target) ==
  \/ type = "tap" /\ target \in {"divA", "btnB"}
  \/ type = "tapstart" /\ target = "spanC"

(***************************************************************************)
(* Event data                                                              *)
(***************************************************************************)
Point1 == [pageX |-> 1, pageY |-> 2, screenX |-> 3, screenY |-> 4,
           clientX |-> 5, clientY |-> 6]
Point2 == [pageX |-> 11, pageY |-> 12, screenX |-> 13, screenY |-> 14,
           clientX |-> 15, clientY |-> 16]
ZeroPoint == [pageX |-> 0, pageY |-> 0, screenX |-> 0, screenY |-> 0,
              clientX |-> 0, clientY |-> 0]
Points == {Point1, Point2}

Keys1 == [altKey |-> TRUE, ctrlKey |-> FALSE, metaKey |-> FALSE, shiftKey |-> TRUE]
Keys2 == [altKey |-> FALSE, ctrlKey |-> TRUE, metaKey |-> TRUE, shiftKey |-> FALSE]
NoKeys == [altKey |-> FALSE, ctrlKey |-> FALSE, metaKey |-> FALSE, shiftKey |-> FALSE]

\* the pointer states a mouse event is taken in
MouseInits == {[pos |-> Point1, keys |-> Keys1], [pos |-> Point2, keys |-> Keys2]}

\* the pointer state of a click event
ClickInit == [pos |-> Point2, keys |-> Keys1]

TouchIds == 0..MaxTouchId

\* A Touch of changedTouches
Touch(id, p) ==
  [class |-> "Touch", identifier |-> id,
   pageX |-> p.pageX, pageY |-> p.pageY, screenX |-> p.screenX,
   screenY |-> p.screenY, clientX |-> p.clientX, clientY |-> p.clientY]

\* A native event as the listeners read it.  class is the constructor the
\* instanceof tests of lines 52, 148 and 164 see.
NativeEvent(type, class, target, p, k, detail, key, touches) ==
  [type |-> type, class |-> class, target |-> target,
   pageX |-> p.pageX, pageY |-> p.pageY, screenX |-> p.screenX,
   screenY |-> p.screenY, clientX |-> p.clientX, clientY |-> p.clientY,
   altKey |-> k.altKey, ctrlKey |-> k.ctrlKey, metaKey |-> k.metaKey,
   shiftKey |-> k.shiftKey,
   detail |-> detail, key |-> key, changedTouches |-> touches]

MouseEvent(type, target, m) ==
  NativeEvent(type, "MouseEvent", target, m.pos, m.keys, 1, "", <<>>)

TouchEvent(type, target, touches) ==
  NativeEvent(type, "TouchEvent", target, ZeroPoint, NoKeys, 0, "", touches)

ClickEvent(class, target, m, detail) ==
  NativeEvent("click", class, target, m.pos, m.keys, detail, "", <<>>)

KeyboardEvent(target, key) ==
  NativeEvent("keyup", "KeyboardEvent", target, ZeroPoint, NoKeys, 0, key, <<>>)

\* event.composedPath(), innermost target first
composedPath(event) == ComposedPath(event.target)

\* info instanceof MouseEvent (PointerEvent extends MouseEvent)
IsMouseEvent(info) == info.class \in {"MouseEvent", "PointerEvent"}

\* info instanceof Event: a Touch is not an Event
IsEvent(info) == info.class \in {"MouseEvent", "PointerEvent", "TouchEvent", "KeyboardEvent"}

PositionsOf(info) ==
  [pageX |-> info.pageX, pageY |-> info.pageY, screenX |-> info.screenX,
   screenY |-> info.screenY, clientX |-> info.clientX, clientY |-> info.clientY]

MetaKeysOf(info) ==
  [altKey |-> info.altKey, ctrlKey |-> info.ctrlKey, metaKey |-> info.metaKey,
   shiftKey |-> info.shiftKey]

(***************************************************************************)
(* class TapEvent: the constructor reads the module-level snapshots.       *)
(***************************************************************************)
TapEvent(type, pos, meta) ==
  LET p == IF pos # <<>> THEN pos[1] ELSE ZeroPoint
      k == IF meta # <<>> THEN meta[1] ELSE NoKeys
  IN [type |-> type,
      pageX |-> p.pageX, pageY |-> p.pageY, screenX |-> p.screenX,
      screenY |-> p.screenY, clientX |-> p.clientX, clientY |-> p.clientY,
      altKey |-> k.altKey, ctrlKey |-> k.ctrlKey, metaKey |-> k.metaKey,
      shiftKey |-> k.shiftKey]

\* isButtonEnterOrSpace(event)
isButtonEnterOrSpace(ie, event) ==
  IF ie /\ event.class = "PointerEvent" THEN FALSE ELSE event.detail = 0

(***************************************************************************)
(* applyEvent: capability negotiation and the closure variables.           *)
(***************************************************************************)
PropNames == {"ontap", "ontapstart", "ontapend"}

\* 'ontap' in target
In(name, target) == target[name] # "absent"

\* lines 109-135: the closure variables of one applyEvent call
Closure(onTap, onTapEnd, onTapStart, listening) ==
  [onTap |-> onTap, onTapEnd |-> onTapEnd, onTapStart |-> onTapStart,
   listening |-> listening,
   currentTouch |-> -1,
   lastTapTarget |-> <<>>,
   mouseEventPath |-> <<>>,
   touchEventPath |-> <<>>]

\* Faulty variant of applyEvent: the on-event properties are not put on the
\* target.
applyEventNoMark(target) ==
  LET onTap == ~In("ontap", target)
      onTapEnd == ~In("ontapend", target)
      onTapStart == ~In("ontapstart", target)
  IN IF ~onTap /\ ~onTapEnd /\ ~onTapStart
     THEN [inst |-> Closure(onTap, onTapEnd, onTapStart, FALSE), target |-> target]
     ELSE [inst |-> Closure(onTap, onTapEnd, onTapStart, TRUE), target |-> target]

\* lines 77-103 and 316-322: the instance an applyEvent call creates and the
\* target's properties after it
applyEvent(target) ==
  LET onTap == ~In("ontap", target)
      onTapEnd == ~In("ontapend", target)
      onTapStart == ~In("ontapstart", target)
  IN IF ~onTap /\ ~onTapEnd /\ ~onTapStart
     THEN [inst |-> Closure(onTap, onTapEnd, onTapStart, FALSE), target |-> target]
     ELSE [inst |-> Closure(onTap, onTapEnd, onTapStart, TRUE),
           target |-> [n \in PropNames |-> "null"]]

(***************************************************************************)
(* A handler run is a fold over a context c: the instances, the two        *)
(* module-level snapshots, the TapEvents dispatched so far (out), the      *)
(* native event types whose default was prevented, the click events that   *)
(* HTMLElement.click() dispatched, and whether a listener threw.  c.ie is  *)
(* isIE.  c.page is the page's own once-listener for TapEvents, if any: on *)
(* the first TapEvent of type c.page[1].on it dispatches the native event  *)
(* c.page[1].event before dispatchEvent returns.                           *)
(***************************************************************************)
RECURSIVE Deliver(_, _, _, _, _)

\* what a TapEvent was dispatched for: the coordinates and, for a mouse
\* event, the modifier flags of the info handed to dispatchTapOnTarget
SourceOf(info) ==
  [pos |-> PositionsOf(info),
   keys |-> IF IsMouseEvent(info) THEN <<MetaKeysOf(info)>> ELSE <<>>]

\* target.dispatchEvent(tapEvent) of line 162: the page's once-listener runs
\* inside it; an exception of a listener does not leave dispatchEvent
DispatchEvent(c, type) ==
  IF c.page # <<>> /\ c.page[1].on = type
  THEN [Deliver([c EXCEPT !.page = <<>>], 1, c.ie, c.page[1].event,
                c.page[1].clickClass)
          EXCEPT !.threw = c.threw]
  ELSE c

Undefined == [class |-> "undefined"]

\* array.splice(0, n): the array without its first n entries
Splice(a, n) == SubSeq(a, n + 1, Len(a))

\* changedTouches[0], or Undefined for an empty list
First(a) == IF a = <<>> THEN Undefined ELSE a[1]

\* Faulty variant of dispatchTapOnTarget: the TapEvent is constructed before
\* the snapshots are refreshed, so it carries the previous dispatch's values.
dispatchTapStale(c, i, type, target, info) ==
  IF info = Undefined
  THEN [c EXCEPT !.threw = TRUE]
  ELSE
    LET tapEvent == TapEvent(type, c.positions, c.metaKeys)
        defaultPrevented == PageCancels(type, target)
    IN [c EXCEPT
          !.positions = <<PositionsOf(info)>>,
          !.metaKeys = IF IsMouseEvent(info) THEN <<MetaKeysOf(info)>> ELSE <<>>,
          !.out = Append(@, [event |-> tapEvent, target |-> target,
                             defaultPrevented |-> defaultPrevented, by |-> i,
                             source |-> SourceOf(info)]),
          !.prevented = IF defaultPrevented /\ IsEvent(info)
                        THEN @ \cup {info.type} ELSE @]

\* Faulty variant of dispatchTapOnTarget: a prevented TapEvent does not
\* prevent the default of its source.
dispatchTapNoCancel(c, i, type, target, info) ==
  IF info = Undefined
  THEN [c EXCEPT !.threw = TRUE]
  ELSE
    LET c1 == [c EXCEPT !.positions = <<PositionsOf(info)>>,
                        !.metaKeys = IF IsMouseEvent(info)
                                     THEN <<MetaKeysOf(info)>> ELSE <<>>]
        tapEvent == TapEvent(type, c1.positions, c1.metaKeys)
    IN [c1 EXCEPT
          !.out = Append(@, [event |-> tapEvent, target |-> target,
                             defaultPrevented |-> PageCancels(type, target),
                             by |-> i, source |-> SourceOf(info)])]

\* Faulty variant of dispatchTapOnTarget: the modifier snapshot is not
\* cleared for a source that is not a mouse event.
dispatchTapKeepsMeta(c, i, type, target, info) ==
  IF info = Undefined
  THEN [c EXCEPT !.threw = TRUE]
  ELSE
    LET c1 == [c EXCEPT !.positions = <<PositionsOf(info)>>,
                        !.metaKeys = IF IsMouseEvent(info)
                                     THEN <<MetaKeysOf(info)>> ELSE @]
        tapEvent == TapEvent(type, c1.positions, c1.metaKeys)
        defaultPrevented == PageCancels(type, target)
        c2 == DispatchEvent(
                [c1 EXCEPT !.out = Append(@, [event |-> tapEvent,
                                              target |-> target,
                                              defaultPrevented |-> defaultPrevented,
                                              by |-> i,
                                              source |-> SourceOf(info)])],
                type)
    IN [c2 EXCEPT
          !.prevented = IF defaultPrevented /\ IsEvent(info)
                        THEN @ \cup {info.type} ELSE @]

\* lines 144-167
dispatchTapOnTarget(c, i, type, target, info) ==
  IF info = Undefined
  THEN [c EXCEPT !.threw = TRUE]  \* line 145 destructures undefined: TypeError
  ELSE
    LET c1 == [c EXCEPT !.positions = <<PositionsOf(info)>>,
                        !.metaKeys = IF IsMouseEvent(info)
                                     THEN <<MetaKeysOf(info)>> ELSE <<>>]
        tapEvent == TapEvent(type, c1.positions, c1.metaKeys)
        defaultPrevented == PageCancels(type, target)
        c2 == DispatchEvent(
                [c1 EXCEPT !.out = Append(@, [event |-> tapEvent,
                                              target |-> target,
                                              defaultPrevented |-> defaultPrevented,
                                              by |-> i,
                                              source |-> SourceOf(info)])],
                type)
    IN [c2 EXCEPT
          !.prevented = IF defaultPrevented /\ IsEvent(info)
                        THEN @ \cup {info.type} ELSE @]

\* lines 174-184
mousedown(c, i, event) ==
  LET s == c.insts[i]
  IN IF s.lastTapTarget = <<>> /\ event.target # "" /\ s.currentTouch = -1
     THEN LET path == composedPath(event)
              c1 == [c EXCEPT !.insts[i].mouseEventPath = path]
          IN IF path # <<>> /\ s.onTapStart
             THEN dispatchTapOnTarget(c1, i, "tapstart", path[1], event)
             ELSE c1
     ELSE c

\* Faulty variant of SharedIndex: the nodeType test is left out.
SharedIndexAnyNode(mouseEventPath, path) ==
  LET hits == {j \in 1..(Len(mouseEventPath) - 1) : mouseEventPath[j] = path[j]}
  IN IF hits = {} THEN 0 ELSE CHOOSE j \in hits : \A k \in hits : j <= k

\* Faulty variant of SharedIndex: the loop runs from the last index down.
SharedIndexOutermost(mouseEventPath, path) ==
  LET hits == {j \in 1..(Len(mouseEventPath) - 1) :
                 mouseEventPath[j] = path[j] /\ IsElementNode(path[j])}
  IN IF hits = {} THEN 0 ELSE CHOOSE j \in hits : \A k \in hits : j >= k

\* lines 223-229: the first index at which both paths hold the same element
\* node, the last index left out; 0 when there is none
SharedIndex(mouseEventPath, path) ==
  LET hits == {j \in 1..(Len(mouseEventPath) - 1) :
                 mouseEventPath[j] = path[j] /\ IsElementNode(path[j])}
  IN IF hits = {} THEN 0 ELSE CHOOSE j \in hits : \A k \in hits : j <= k

\* Faulty variant of mouseup: the early return for a disabled tap is left out.
mouseupIgnoresOnTap(c, i, event) ==
  LET s == c.insts[i]
  IN IF s.lastTapTarget # <<>>
     THEN [c EXCEPT !.insts[i].lastTapTarget = <<>>]
     ELSE
       LET path0 == composedPath(event)
           c1 == IF path0 # <<>> /\ s.onTapEnd
                 THEN dispatchTapOnTarget(c, i, "tapend", path0[1], event)
                 ELSE c
           stored == c1.insts[i].mouseEventPath
           path == IF Len(stored) < Len(path0)
                   THEN Splice(path0, Len(path0) - Len(stored)) ELSE path0
           mouseEventPath ==
                   IF Len(stored) > Len(path0)
                   THEN Splice(stored, Len(stored) - Len(path0)) ELSE stored
           c2 == [c1 EXCEPT !.insts[i].mouseEventPath = mouseEventPath]
           j == SharedIndex(mouseEventPath, path)
       IN IF j # 0
          THEN dispatchTapOnTarget(c2, i, "tap", mouseEventPath[j], event)
          ELSE c2

\* Faulty variant of mouseup: the longer path loses its outer entries
\* instead of its inner ones.
mouseupTrimsOuter(c, i, event) ==
  LET s == c.insts[i]
  IN IF s.lastTapTarget # <<>>
     THEN [c EXCEPT !.insts[i].lastTapTarget = <<>>]
     ELSE
       LET path0 == composedPath(event)
           c1 == IF path0 # <<>> /\ s.onTapEnd
                 THEN dispatchTapOnTarget(c, i, "tapend", path0[1], event)
                 ELSE c
       IN IF ~s.onTap
          THEN c1
          ELSE
            LET stored == c1.insts[i].mouseEventPath
                path == IF Len(stored) < Len(path0)
                        THEN SubSeq(path0, 1, Len(stored)) ELSE path0
                mouseEventPath ==
                        IF Len(stored) > Len(path0)
                        THEN SubSeq(stored, 1, Len(path0)) ELSE stored
                c2 == [c1 EXCEPT !.insts[i].mouseEventPath = mouseEventPath]
                j == SharedIndex(mouseEventPath, path)
            IN IF j # 0
               THEN dispatchTapOnTarget(c2, i, "tap", mouseEventPath[j], event)
               ELSE c2

\* Faulty variant of mouseup: a pending suppression is not cleared.
mouseupKeepsFlag(c, i, event) ==
  LET s == c.insts[i]
  IN IF s.lastTapTarget # <<>>
     THEN c
     ELSE
       LET path0 == composedPath(event)
           c1 == IF path0 # <<>> /\ s.onTapEnd
                 THEN dispatchTapOnTarget(c, i, "tapend", path0[1], event)
                 ELSE c
       IN IF ~s.onTap
          THEN c1
          ELSE
            LET stored == c1.insts[i].mouseEventPath
                path == IF Len(stored) < Len(path0)
                        THEN Splice(path0, Len(path0) - Len(stored)) ELSE path0
                mouseEventPath ==
                        IF Len(stored) > Len(path0)
                        THEN Splice(stored, Len(stored) - Len(path0)) ELSE stored
                c2 == [c1 EXCEPT !.insts[i].mouseEventPath = mouseEventPath]
                j == SharedIndex(mouseEventPath, path)
            IN IF j # 0
               THEN dispatchTapOnTarget(c2, i, "tap", mouseEventPath[j], event)
               ELSE c2

\* lines 191-230
mouseup(c, i, event) ==
  LET s == c.insts[i]
  IN IF s.lastTapTarget # <<>>
     THEN [c EXCEPT !.insts[i].lastTapTarget = <<>>]
     ELSE
       LET path0 == composedPath(event)
           c1 == IF path0 # <<>> /\ s.onTapEnd
                 THEN dispatchTapOnTarget(c, i, "tapend", path0[1], event)
                 ELSE c
       IN IF ~s.onTap
          THEN c1
          ELSE
            LET stored == c1.insts[i].mouseEventPath  \* read at line 213
                path == IF Len(stored) < Len(path0)
                        THEN Splice(path0, Len(path0) - Len(stored)) ELSE path0
                mouseEventPath ==
                        IF Len(stored) > Len(path0)
                        THEN Splice(stored, Len(stored) - Len(path0)) ELSE stored
                c2 == [c1 EXCEPT !.insts[i].mouseEventPath = mouseEventPath]
                j == SharedIndex(mouseEventPath, path)
            IN IF j # 0
               THEN dispatchTapOnTarget(c2, i, "tap", mouseEventPath[j], event)
               ELSE c2

\* Faulty variant of touchstart: a touchstart is ignored while a touch is
\* active.
touchstartFirstOnly(c, i, event) ==
  LET s == c.insts[i]
      startTouch == First(event.changedTouches)
  IN IF startTouch = Undefined
     THEN [c EXCEPT !.threw = TRUE]
     ELSE IF s.currentTouch # -1
     THEN c
     ELSE
       LET touchEventPath == composedPath(event)
           c1 == [c EXCEPT !.insts[i].currentTouch = startTouch.identifier,
                           !.insts[i].touchEventPath = touchEventPath]
       IN IF touchEventPath # <<>> /\ s.onTapStart
          THEN dispatchTapOnTarget(c1, i, "tapstart", touchEventPath[1], startTouch)
          ELSE c1

\* lines 237-247
touchstart(c, i, event) ==
  LET s == c.insts[i]
      startTouch == First(event.changedTouches)
  IN IF startTouch = Undefined
     THEN [c EXCEPT !.threw = TRUE]  \* line 239 reads undefined.identifier
     ELSE
       LET touchEventPath == composedPath(event)
           c1 == [c EXCEPT !.insts[i].currentTouch = startTouch.identifier,
                           !.insts[i].touchEventPath = touchEventPath]
       IN IF touchEventPath # <<>> /\ s.onTapStart
          THEN dispatchTapOnTarget(c1, i, "tapstart", touchEventPath[1], startTouch)
          ELSE c1

\* Faulty variant of touchmove: the active touch is kept.
touchmoveKeepsTouch(c, i) == c

\* lines 254-256
touchmove(c, i) == [c EXCEPT !.insts[i].currentTouch = -1]

\* Faulty variant of touchendTry: lastTapTarget is not set at the touch tap.
touchendTryNoMark(c, i, event) ==
  LET s == c.insts[i]
      touch == First(event.changedTouches)
      path0 == composedPath(event)
      path == IF Len(s.touchEventPath) < Len(path0)
              THEN Splice(path0, Len(path0) - Len(s.touchEventPath))
              ELSE path0
      c1 == IF path # <<>> /\ s.onTapEnd
            THEN dispatchTapOnTarget(c, i, "tapend", path[1], touch)
            ELSE c
  IN IF c1.threw
     THEN c1
     ELSE IF path = <<>>
     THEN c1
     ELSE IF touch = Undefined
     THEN [c1 EXCEPT !.threw = TRUE]
     ELSE IF touch.identifier = c1.insts[i].currentTouch /\ s.onTap
     THEN dispatchTapOnTarget(c1, i, "tap", path[1], touch)
     ELSE c1

\* Faulty variant of touchendTry: lastTapTarget is set before the touch is
\* read.
touchendTryMarkFirst(c, i, event) ==
  LET s == c.insts[i]
      touch == First(event.changedTouches)
      path0 == composedPath(event)
      path == IF Len(s.touchEventPath) < Len(path0)
              THEN Splice(path0, Len(path0) - Len(s.touchEventPath))
              ELSE path0
      c0 == IF path # <<>>
            THEN [c EXCEPT !.insts[i].lastTapTarget = <<path[1]>>]
            ELSE c
      c1 == IF path # <<>> /\ s.onTapEnd
            THEN dispatchTapOnTarget(c0, i, "tapend", path[1], touch)
            ELSE c0
  IN IF c1.threw
     THEN c1
     ELSE IF path = <<>>
     THEN c1
     ELSE IF touch = Undefined
     THEN [c1 EXCEPT !.threw = TRUE]
     ELSE IF touch.identifier = c1.insts[i].currentTouch /\ s.onTap
     THEN dispatchTapOnTarget(c1, i, "tap", path[1], touch)
     ELSE c1

\* Faulty variant of touchendTry: the tapend is dispatched only together
\* with the tap.
touchendTryTapEndWithTap(c, i, event) ==
  LET s == c.insts[i]
      touch == First(event.changedTouches)
      path0 == composedPath(event)
      path == IF Len(s.touchEventPath) < Len(path0)
              THEN Splice(path0, Len(path0) - Len(s.touchEventPath))
              ELSE path0
  IN IF path = <<>>
     THEN c
     ELSE IF touch = Undefined
     THEN [c EXCEPT !.threw = TRUE]
     ELSE IF touch.identifier = s.currentTouch
     THEN LET c1 == IF s.onTapEnd
                    THEN dispatchTapOnTarget(c, i, "tapend", path[1], touch)
                    ELSE c
              c2 == [c1 EXCEPT !.insts[i].lastTapTarget = <<path[1]>>]
          IN IF s.onTap
             THEN dispatchTapOnTarget(c2, i, "tap", path[1], touch)
             ELSE c2
     ELSE c

\* lines 264-282: the try block; threw is set where it is left by a TypeError
touchendTry(c, i, event) ==
  LET s == c.insts[i]
      touch == First(event.changedTouches)
      path0 == composedPath(event)
      path == IF Len(s.touchEventPath) < Len(path0)
              THEN Splice(path0, Len(path0) - Len(s.touchEventPath))
              ELSE path0
      c1 == IF path # <<>> /\ s.onTapEnd
            THEN dispatchTapOnTarget(c, i, "tapend", path[1], touch)
            ELSE c
  IN IF c1.threw
     THEN c1
     ELSE IF path = <<>>
     THEN c1
     ELSE IF touch = Undefined
     THEN [c1 EXCEPT !.threw = TRUE]  \* line 278 reads undefined.identifier
     ELSE IF touch.identifier = c1.insts[i].currentTouch  \* read at line 278
     THEN LET c2 == [c1 EXCEPT !.insts[i].lastTapTarget = <<path[1]>>]
          IN IF s.onTap
             THEN dispatchTapOnTarget(c2, i, "tap", path[1], touch)
             ELSE c2
     ELSE c1

\* Faulty variant of touchend: currentTouch is reset after the block instead
\* of in a finally clause.
touchendNoFinally(c, i, event) ==
  LET r == touchendTry([c EXCEPT !.threw = FALSE], i, event)
  IN IF r.threw
     THEN r
     ELSE [r EXCEPT !.insts[i].currentTouch = -1, !.threw = c.threw]

\* lines 263-286: finally resets currentTouch
touchend(c, i, event) ==
  [touchendTry([c EXCEPT !.threw = FALSE], i, event) EXCEPT
     !.insts[i].currentTouch = -1,
     !.threw = @ \/ c.threw]

\* lines 292-299
click(c, i, ie, event) ==
  LET s == c.insts[i]
  IN IF isButtonEnterOrSpace(ie, event)
     THEN IF s.onTap
          THEN IF composedPath(event) = <<>>
               THEN [c EXCEPT !.threw = TRUE]  \* undefined.dispatchEvent
               ELSE dispatchTapOnTarget(c, i, "tap", composedPath(event)[1], event)
          ELSE c
     ELSE c

\* the click listeners of the instances i.. in registration order
RECURSIVE DeliverClick(_, _, _, _)
DeliverClick(c, i, ie, event) ==
  IF i > Len(c.insts)
  THEN c
  ELSE DeliverClick(IF c.insts[i].listening THEN click(c, i, ie, event) ELSE c,
                    i + 1, ie, event)

\* Faulty variant of onEnterOrSpacebar: natively activatable elements are
\* clicked too.
onEnterOrSpacebarAnyRole(c, ie, event, clickClass) ==
  LET path == composedPath(event)
  IN IF /\ path # <<>>
        /\ IsHTMLElement(path[1])
        /\ MatchesRoleButton(path[1])
     THEN LET clickEvent == NativeEvent("click", clickClass, path[1],
                                        ZeroPoint, NoKeys, 0, "", <<>>)
          IN DeliverClick([c EXCEPT !.prevented = @ \cup {"keyup"},
                                    !.clicks = Append(@, clickEvent)],
                          1, ie, clickEvent)
     ELSE c

\* lines 60-70; clickClass is the constructor of the click event that
\* HTMLElement.click() dispatches (detail 0, no coordinates, no modifiers)
onEnterOrSpacebar(c, ie, event, clickClass) ==
  LET path == composedPath(event)
  IN IF /\ path # <<>>
        /\ IsHTMLElement(path[1])
        /\ MatchesRoleButton(path[1])
        /\ ~MatchesNative(path[1])
     THEN LET clickEvent == NativeEvent("click", clickClass, path[1],
                                        ZeroPoint, NoKeys, 0, "", <<>>)
          IN DeliverClick([c EXCEPT !.prevented = @ \cup {"keyup"},
                                    !.clicks = Append(@, clickEvent)],
                          1, ie, clickEvent)
     ELSE c

\* lines 305-314
keyup(c, ie, event, clickClass) ==
  IF event.key \in {"Enter", "Spacebar", " "}
  THEN onEnterOrSpacebar(c, ie, event, clickClass)
  ELSE c

\* the listener of instance i for the event's type
Listener(c, i, ie, event, clickClass) ==
  CASE event.type = "mousedown" -> mousedown(c, i, event)
    [] event.type = "mouseup" -> mouseup(c, i, event)
    [] event.type = "touchstart" -> touchstart(c, i, event)
    [] event.type = "touchmove" -> touchmove(c, i)
    [] event.type = "touchend" -> touchend(c, i, event)
    [] event.type = "click" -> click(c, i, ie, event)
    [] event.type = "keyup" -> keyup(c, ie, event, clickClass)

\* the capture listeners on the target run in registration order
Deliver(c, i, ie, event, clickClass) ==
  IF i > Len(c.insts)
  THEN c
  ELSE Deliver(IF c.insts[i].listening
               THEN Listener(c, i, ie, event, clickClass) ELSE c,
               i + 1, ie, event, clickClass)

(***************************************************************************)
(* The record of what happened: hist holds the latest native events, each  *)
(* with the TapEvents its listeners dispatched, as long as they form the   *)
(* beginning of one of the gestures below; an event that continues none    *)
(* starts hist afresh.  hist is read by the properties only.               *)
(***************************************************************************)
Types(h) == [j \in 1..Len(h) |-> h[j].event.type]

SameTarget(a, b) == a.event.target = b.event.target

SameTouch(a, b) ==
  /\ a.event.changedTouches # <<>>
  /\ b.event.changedTouches # <<>>
  /\ a.event.changedTouches[1].identifier = b.event.changedTouches[1].identifier

\* mousedown from idle, mouseup | touchstart, touchmove, touchend of one touch
\* on one element | touchstart, touchend of that touch or without touch data
\* on one element | touchstart, touchend of one touch on one element, then
\* mousedown, mouseup on that element
Gesture(h) ==
  \/ Len(h) = 1
  \/ Types(h) = <<"mousedown", "mouseup">> /\ h[1].idle
  \/ Types(h) = <<"touchstart", "touchmove">>
  \/ /\ Types(h) = <<"touchstart", "touchmove", "touchend">>
     /\ SameTouch(h[1], h[3]) /\ SameTarget(h[1], h[3])
  \/ /\ Types(h) = <<"touchstart", "touchend">>
     /\ SameTarget(h[1], h[2])
     /\ SameTouch(h[1], h[2]) \/ h[2].event.changedTouches = <<>>
  \/ /\ Len(h) >= 3
     /\ Types(h) \in {<<"touchstart", "touchend", "mousedown">>,
                      <<"touchstart", "touchend", "mousedown", "mouseup">>}
     /\ SameTouch(h[1], h[2])
     /\ \A j \in 2..Len(h) : SameTarget(h[1], h[j])

Suffix(h, n) == SubSeq(h, Len(h) - n + 1, Len(h))

\* the longest suffix of h that begins a gesture; a touchmove right after a
\* touchmove is the same record
Keep(h) ==
  IF Len(h) >= 2 /\ h[Len(h)] = h[Len(h) - 1] /\ h[Len(h)].event.type = "touchmove"
  THEN SubSeq(h, 1, Len(h) - 1)
  ELSE LET ns == {n \in 1..Len(h) : Gesture(Suffix(h, n))}
       IN Suffix(h, CHOOSE n \in ns : \A m \in ns : m <= n)

\* no listening instance has a touch active or a suppression pending
Idle ==
  \A i \in 1..Len(insts) :
    insts[i].listening =>
      insts[i].lastTapTarget = <<>> /\ insts[i].currentTouch = -1

(***************************************************************************)
(* class Track.  Lane starts and sizes are whole pixels; the margin may be *)
(* a fraction (0.5 by default), so the margin and every content position   *)
(* are counted in half pixels.  trackSize / laneCount is the exact         *)
(* quotient: i lanes of that size end at (i * trackSize) / laneCount, and  *)
(* x | 0 of a non-negative x is its integer part.  Lane i of the source is *)
(* entry i + 1 of the sequences.                                           *)
(***************************************************************************)
\* lines 9-12: the fields of a new Track
NewTrack ==
  [trackSize |-> 0, laneSizes |-> <<>>, laneStarts |-> <<0>>, marginHalves |-> 1]

\* lines 68-85, for trackSize > 0 and laneCount > 0
init(t, trackSize, laneCount) ==
  [t EXCEPT
     !.trackSize = trackSize,
     !.laneStarts = [i \in 1..laneCount |-> ((i - 1) * trackSize) \div laneCount],
     !.laneSizes = [i \in 1..laneCount |->
                      ((i * trackSize) \div laneCount)
                        - (((i - 1) * trackSize) \div laneCount)]]

\* lines 34-36
laneCount(t) == Len(t.laneSizes)

\* lines 108-110
getLaneSize(t, index) ==
  IF index + 1 \in DOMAIN t.laneSizes THEN t.laneSizes[index + 1] ELSE 0

\* lines 117-119
getLaneStart(t, index) ==
  IF index + 1 \in DOMAIN t.laneStarts THEN t.laneStarts[index + 1] ELSE 0

\* lines 135-138, in half pixels
getContentSize(t, index) ==
  LET contentSize == 2 * getLaneSize(t, index) - t.marginHalves - t.marginHalves
  IN IF contentSize > 0 THEN contentSize ELSE 0

\* lines 145-147, in half pixels
getContentStart(t, index) == 2 * getLaneStart(t, index) + t.marginHalves

\* lines 154-156, in half pixels
getContentEnd(t, index) == getContentStart(t, index) + getContentSize(t, index)

\* lines 163-177, for an initialised Track; mousePixel / laneSize is
\* mousePixel * laneCount / trackSize
hitTest(t, mousePixel) ==
  LET index == (mousePixel * laneCount(t)) \div t.trackSize
  IN IF index >= 0 /\ index < laneCount(t)
     THEN IF \/ 2 * mousePixel < getContentStart(t, index)
             \/ 2 * mousePixel >= getContentEnd(t, index)
          THEN -1
          ELSE index
     ELSE -1

(***************************************************************************)
(* Initial states and actions                                              *)
(***************************************************************************)
NoProps == [n \in PropNames |-> "absent"]

\* line 325 has run once on a target without on-event properties
Init ==
  /\ isIE \in BOOLEAN
  /\ LET r == applyEvent(NoProps)
     IN insts = <<r.inst>> /\ props = r.target /\ found = <<NoProps>>
  /\ positions = <<>>
  /\ metaKeys = <<>>
  /\ hist = <<>>
  /\ track = NewTrack
  /\ hit = <<>>

\* The document before the module is evaluated: another library may already
\* have put any of the on-event properties on the target.
InitLoad ==
  /\ isIE \in BOOLEAN
  /\ props \in [PropNames -> {"absent", "foreign"}]
  /\ insts = <<>>
  /\ found = <<>>
  /\ positions = <<>>
  /\ metaKeys = <<>>
  /\ hist = <<>>
  /\ track = NewTrack
  /\ hit = <<>>

\* line 325: the module is evaluated (again) and calls applyEvent(global)
Install ==
  /\ Len(insts) < MaxInstalls
  /\ LET r == applyEvent(props)
     IN /\ insts' = Append(insts, r.inst)
        /\ props' = r.target
  /\ found' = Append(found, props)
  /\ UNCHANGED <<isIE, positions, metaKeys, hist, track, hit>>

\* some applyEvent call has registered its listeners
Listening == \E i \in 1..Len(insts) : insts[i].listening

\* the listeners run on a native event; clickClass as in onEnterOrSpacebar
Fire(event, clickClass) ==
  /\ \E c \in {Deliver([insts |-> insts, positions |-> positions,
                        metaKeys |-> metaKeys, out |-> <<>>,
                        prevented |-> {}, clicks |-> <<>>, threw |-> FALSE,
                        ie |-> isIE, page |-> <<>>],
                       1, isIE, event, clickClass)} :
        /\ insts' = c.insts
        /\ positions' = c.positions
        /\ metaKeys' = c.metaKeys
        /\ hist' = Keep(Append(hist, [event |-> event, idle |-> Idle,
                                      out |-> c.out, prevented |-> c.prevented,
                                      clicks |-> c.clicks, threw |-> c.threw]))
  /\ UNCHANGED <<isIE, props, found, track, hit>>

\* Each action takes the elements T that events are targeted at.
MouseDown(T) ==
  \E t \in T, m \in MouseInits :
    /\ Listening
    /\ Fire(MouseEvent("mousedown", t, m), "")

MouseUp(T) ==
  \E t \in T, m \in MouseInits :
    /\ Listening
    /\ Fire(MouseEvent("mouseup", t, m), "")

TouchStart(T) ==
  \E t \in T, id \in TouchIds, p \in Points :
    /\ Listening
    /\ Fire(TouchEvent("touchstart", t, <<Touch(id, p)>>), "")

\* the listener reads nothing of a touchmove
TouchMove ==
  /\ Listening
  /\ Fire(TouchEvent("touchmove", Document, <<>>), "")

\* changedTouches may come without a first entry
TouchEnd(T) ==
  \E t \in T :
    \E touches \in {<<>>} \cup {<<Touch(id, p)>> : id \in TouchIds, p \in Points} :
      /\ Listening
      /\ Fire(TouchEvent("touchend", t, touches), "")

\* a click of a pointer (detail 1) or of the keyboard (detail 0)
Click(T) ==
  \E t \in T, detail \in {0, 1}, class \in {"MouseEvent", "PointerEvent"} :
    /\ Listening
    /\ Fire(ClickEvent(class, t, ClickInit, detail), "")

KeyUp(T) ==
  \E t \in T, key \in {"Enter", " ", "Escape"},
     clickClass \in {"MouseEvent", "PointerEvent"} :
    /\ Listening
    /\ Fire(KeyboardEvent(t, key), clickClass)

Next ==
  \/ MouseDown(Elements)
  \/ MouseUp(Elements)
  \/ TouchStart(Elements)
  \/ TouchMove
  \/ TouchEnd(Elements)
  \/ Click(Elements)
  \/ KeyUp(Elements)

Spec == Init /\ [][Next]_vars

\* the module evaluated up to MaxInstalls times, before and between the
\* events on one element
NextLoad ==
  \/ Install
  \/ MouseDown(LoadElements)
  \/ MouseUp(LoadElements)
  \/ TouchStart(LoadElements)
  \/ TouchMove
  \/ TouchEnd(LoadElements)
  \/ Click(LoadElements)
  \/ KeyUp(LoadElements)

SpecLoad == InitLoad /\ [][NextLoad]_vars

(***************************************************************************)
(* Runs of at most MaxEvents mouse and touch events from the initial       *)
(* state, on divA and on spanC inside it.  hist holds the whole run, each  *)
(* event with the instances as the listeners found and left them.          *)
(***************************************************************************)
RunElements == {"divA", "spanC"}

\* the pointer state of the mouse events of a run
RunMouse == [pos |-> Point1, keys |-> Keys1]

FireRun(event) ==
  /\ Len(hist) < MaxEvents
  /\ \E c \in {Deliver([insts |-> insts, positions |-> positions,
                        metaKeys |-> metaKeys, out |-> <<>>,
                        prevented |-> {}, clicks |-> <<>>, threw |-> FALSE,
                        ie |-> isIE, page |-> <<>>],
                       1, isIE, event, "")} :
        /\ insts' = c.insts
        /\ positions' = c.positions
        /\ metaKeys' = c.metaKeys
        /\ hist' = Append(hist, [event |-> event, idle |-> Idle,
                                 out |-> c.out, prevented |-> c.prevented,
                                 clicks |-> c.clicks, threw |-> c.threw,
                                 before |-> insts, after |-> c.insts])
  /\ UNCHANGED <<isIE, props, found, track, hit>>

RunMouseDown ==
  \E t \in RunElements :
    /\ Listening
    /\ FireRun(MouseEvent("mousedown", t, RunMouse))

RunMouseUp ==
  \E t \in RunElements :
    /\ Listening
    /\ FireRun(MouseEvent("mouseup", t, RunMouse))

RunTouchStart ==
  \E t \in RunElements, id \in TouchIds :
    /\ Listening
    /\ FireRun(TouchEvent("touchstart", t, <<Touch(id, Point2)>>))

RunTouchMove ==
  /\ Listening
  /\ FireRun(TouchEvent("touchmove", Document, <<>>))

RunTouchEnd ==
  \E t \in RunElements :
    \E touches \in {<<>>} \cup {<<Touch(id, Point2)>> : id \in TouchIds} :
      /\ Listening
      /\ FireRun(TouchEvent("touchend", t, touches))

NextRun ==
  \/ RunMouseDown
  \/ RunMouseUp
  \/ RunTouchStart
  \/ RunTouchMove
  \/ RunTouchEnd

InitRun == Init /\ ~isIE

SpecRun == InitRun /\ [][NextRun]_vars

(***************************************************************************)
(* Events whose TapEvents reach a listener of the page that dispatches a   *)
(* native event of its own from inside the dispatch.  hist holds the last  *)
(* native event only, with the page's listener, everything dispatched      *)
(* until its listeners returned, and the instances as the listeners found  *)
(* and left them.                                                          *)
(***************************************************************************)
TapTypes == {"tapstart", "tapend", "tap"}

\* the native events the page's listener dispatches: divA.click(), a
\* mouseup on divA, a touchstart on spanC
PageEvents ==
  { NativeEvent("click", "MouseEvent", "divA", ZeroPoint, NoKeys, 0, "", <<>>),
    MouseEvent("mouseup", "divA", [pos |-> Point1, keys |-> Keys2]),
    TouchEvent("touchstart", "spanC", <<Touch(MaxTouchId, Point1)>>) }

\* no listener of the page, or a once-listener for one TapEvent type
Pages ==
  {<<>>} \cup {<<[on |-> type, event |-> e, clickClass |-> ""]>> :
                 type \in TapTypes, e \in PageEvents}

FireNested(event, page) ==
  /\ \E c \in {Deliver([insts |-> insts, positions |-> positions,
                        metaKeys |-> metaKeys, out |-> <<>>,
                        prevented |-> {}, clicks |-> <<>>, threw |-> FALSE,
                        ie |-> isIE, page |-> page],
                       1, isIE, event, "")} :
        /\ insts' = c.insts
        /\ positions' = c.positions
        /\ metaKeys' = c.metaKeys
        /\ hist' = <<[event |-> event, idle |-> Idle,
                      out |-> c.out, prevented |-> c.prevented,
                      clicks |-> c.clicks, threw |-> c.threw,
                      page |-> page,
                      ran |-> page # <<>> /\ c.page = <<>>,
                      before |-> insts, after |-> c.insts]>>
  /\ UNCHANGED <<isIE, props, found, track, hit>>

NestedMouseDown ==
  \E t \in RunElements, page \in Pages :
    /\ Listening
    /\ FireNested(MouseEvent("mousedown", t, RunMouse), page)

NestedMouseUp ==
  \E t \in RunElements, page \in Pages :
    /\ Listening
    /\ FireNested(MouseEvent("mouseup", t, RunMouse), page)

NestedTouchStart ==
  \E t \in RunElements, page \in Pages :
    /\ Listening
    /\ FireNested(TouchEvent("touchstart", t, <<Touch(0, Point2)>>), page)

NestedTouchMove ==
  /\ Listening
  /\ FireNested(TouchEvent("touchmove", Document, <<>>), <<>>)

NestedTouchEnd ==
  \E t \in RunElements, id \in TouchIds, page \in Pages :
    /\ Listening
    /\ FireNested(TouchEvent("touchend", t, <<Touch(id, Point2)>>), page)

NestedClick ==
  \E t \in RunElements, page \in Pages :
    /\ Listening
    /\ FireNested(ClickEvent("MouseEvent", t, ClickInit, 0), page)

NextNested ==
  \/ NestedMouseDown
  \/ NestedMouseUp
  \/ NestedTouchStart
  \/ NestedTouchMove
  \/ NestedTouchEnd
  \/ NestedClick

SpecNested == InitRun /\ [][NextNested]_vars

(***************************************************************************)
(* Single steps: any mouse or touch event on any element in any state the  *)
(* instance can reach, without a listener of the page, for every set of    *)
(* on-event properties the target can have at line 325 that lets           *)
(* applyEvent register its listeners.  hist holds the last native event,   *)
(* with the instances before and after it.                                 *)
(***************************************************************************)
InitStep ==
  /\ isIE = FALSE
  /\ \E target \in [PropNames -> {"absent", "foreign"}] :
       /\ applyEvent(target).inst.listening
       /\ insts = <<applyEvent(target).inst>>
       /\ props = applyEvent(target).target
       /\ found = <<target>>
  /\ positions = <<>>
  /\ metaKeys = <<>>
  /\ hist = <<>>
  /\ track = NewTrack
  /\ hit = <<>>

StepMouseDown ==
  \E t \in Elements, m \in MouseInits :
    /\ Listening
    /\ FireNested(MouseEvent("mousedown", t, m), <<>>)

StepMouseUp ==
  \E t \in Elements, m \in MouseInits :
    /\ Listening
    /\ FireNested(MouseEvent("mouseup", t, m), <<>>)

StepTouchStart ==
  \E t \in Elements, id \in TouchIds :
    /\ Listening
    /\ FireNested(TouchEvent("touchstart", t, <<Touch(id, Point2)>>), <<>>)

StepTouchMove ==
  /\ Listening
  /\ FireNested(TouchEvent("touchmove", Document, <<>>), <<>>)

StepTouchEnd ==
  \E t \in Elements :
    \E touches \in {<<>>} \cup {<<Touch(id, Point2)>> : id \in TouchIds} :
      /\ Listening
      /\ FireNested(TouchEvent("touchend", t, touches), <<>>)

NextStep ==
  \/ StepMouseDown
  \/ StepMouseUp
  \/ StepTouchStart
  \/ StepTouchMove
  \/ StepTouchEnd

SpecStep == InitStep /\ [][NextStep]_vars

(***************************************************************************)
(* A Track that is initialised, given margins and hit-tested; no tap       *)
(* listeners are installed.                                                *)
(***************************************************************************)
InitTrack ==
  /\ isIE = FALSE
  /\ props = NoProps
  /\ insts = <<>>
  /\ found = <<>>
  /\ positions = <<>>
  /\ metaKeys = <<>>
  /\ hist = <<>>
  /\ track = NewTrack
  /\ hit = <<>>

TapVars == <<isIE, props, insts, found, positions, metaKeys, hist>>

\* track.init(trackSize, laneCount) with positive integers
TrackInit ==
  \E trackSize \in 1..MaxTrackSize, lanes \in 1..MaxLanes :
    /\ track' = init(track, trackSize, lanes)
    /\ hit' = <<>>
    /\ UNCHANGED TapVars

\* track.margin = value (lines 58-60), value a multiple of half a pixel
SetMargin ==
  \E halves \in 0..MaxMarginHalves :
    /\ track' = [track EXCEPT !.marginHalves = halves]
    /\ hit' = <<>>
    /\ UNCHANGED TapVars

\* track.hitTest(mousePixel) on an initialised Track
HitTest ==
  \E mousePixel \in -2..(MaxTrackSize + 2) :
    /\ track.trackSize > 0
    /\ hit' = <<[mousePixel |-> mousePixel, index |-> hitTest(track, mousePixel)]>>
    /\ UNCHANGED <<track, TapVars>>

NextTrack ==
  \/ TrackInit
  \/ SetMargin
  \/ HitTest

SpecTrack == InitTrack /\ [][NextTrack]_vars

(***************************************************************************)
(* Properties.  Last is the native event handled last, Prev the one right  *)
(* before it when both belong to one gesture.                              *)
(***************************************************************************)
Last == hist[Len(hist)]
Prev == hist[Len(hist) - 1]

OutTypes(r) == [j \in 1..Len(r.out) |-> r.out[j].event.type]

Count(r, type) == Cardinality({j \in 1..Len(r.out) : r.out[j].event.type = type})

Range(f) == {f[j] : j \in DOMAIN f}

\* every TapEvent the record's listeners dispatched carries the coordinates
\* of the record's native event
OutCarriesEvent(r) ==
  \A j \in 1..Len(r.out) : PositionsOf(r.out[j].event) = PositionsOf(r.event)

\* every listening instance dispatches all three types
AllEnabled ==
  \A i \in 1..Len(insts) :
    insts[i].listening =>
      insts[i].onTap /\ insts[i].onTapEnd /\ insts[i].onTapStart

\* a mousedown handled in the idle state, directly followed by a mouseup
MouseGesture ==
  /\ Len(hist) >= 2
  /\ Prev.event.type = "mousedown"
  /\ Prev.idle
  /\ Last.event.type = "mouseup"
  /\ AllEnabled

\* C1: from idle and with all three types enabled, a mousedown and then a
\* mouseup on the same element (with an ancestor above it in the path)
\* dispatch exactly one tapstart, one tapend and one tap, the tapstart (by
\* the mousedown) before the tapend (by the mouseup), each with the
\* coordinates of the native event that triggered it.
C1_MouseTapFiresOnce ==
  (/\ MouseGesture
   /\ SameTarget(Prev, Last)
   /\ Len(composedPath(Last.event)) >= 2)
  => /\ OutTypes(Prev) = <<"tapstart">>
     /\ Len(Last.out) = 2
     /\ Count(Last, "tapend") = 1
     /\ Count(Last, "tap") = 1
     /\ OutCarriesEvent(Prev)
     /\ OutCarriesEvent(Last)

C1_Witness ==
  /\ MouseGesture
  /\ SameTarget(Prev, Last)
  /\ PositionsOf(Prev.event) # PositionsOf(Last.event)
  /\ OutTypes(Last) = <<"tapend", "tap">>

\* a touchstart and touchend of one touch on one element, then the
\* mousedown (and mouseup) the browser synthesises on that element
TouchThenMouse ==
  /\ Len(hist) \in {3, 4}
  /\ Types(hist) \in {<<"touchstart", "touchend", "mousedown">>,
                      <<"touchstart", "touchend", "mousedown", "mouseup">>}
  /\ SameTouch(hist[1], hist[2])
  /\ \A j \in 2..Len(hist) : SameTarget(hist[1], hist[j])
  /\ AllEnabled

\* C2: touchstart and touchend of the same touch on an element, followed by
\* the synthetic mousedown and mouseup on it, dispatch exactly one tap in
\* total, by the touchend; the mousedown and the mouseup dispatch no tap.
C2_TouchSuppressesMouseTap ==
  TouchThenMouse =>
    /\ Count(hist[1], "tap") = 0
    /\ Count(hist[2], "tap") = 1
    /\ \A j \in 3..Len(hist) : Count(hist[j], "tap") = 0

C2_Witness ==
  /\ TouchThenMouse
  /\ Len(hist) = 4
  /\ Count(hist[2], "tap") = 1
  /\ hist[4].out = <<>>

\* C3: touchstart, touchmove(s), touchend of the same touch on the same
\* element dispatch tapstart and tapend and no tap.
C3_MoveCancelsTap ==
  (/\ Len(hist) = 3
   /\ Types(hist) = <<"touchstart", "touchmove", "touchend">>
   /\ SameTouch(hist[1], hist[3])
   /\ SameTarget(hist[1], hist[3])
   /\ AllEnabled)
  => /\ OutTypes(hist[1]) = <<"tapstart">>
     /\ hist[2].out = <<>>
     /\ OutTypes(hist[3]) = <<"tapend">>

C3_Witness ==
  /\ Len(hist) = 3
  /\ Types(hist) = <<"touchstart", "touchmove", "touchend">>
  /\ SameTouch(hist[1], hist[3])
  /\ OutTypes(hist[3]) = <<"tapend">>

\* the two events' composed paths share no element node
NoSharedElement(a, b) ==
  Range(composedPath(a.event)) \cap Range(composedPath(b.event)) \cap Elements = {}

\* C4: from idle, a mousedown on A and a mouseup on B whose paths share no
\* element node dispatch tapstart on A, tapend on B and no tap.
C4_DragOffNoTap ==
  (MouseGesture /\ NoSharedElement(Prev, Last))
  => /\ OutTypes(Prev) = <<"tapstart">>
     /\ Prev.out[1].target = Prev.event.target
     /\ OutTypes(Last) = <<"tapend">>
     /\ Last.out[1].target = Last.event.target

C4_Witness ==
  /\ MouseGesture
  /\ NoSharedElement(Prev, Last)
  /\ Len(composedPath(Prev.event)) > Len(composedPath(Last.event))
  /\ OutTypes(Last) = <<"tapend">>

\* a keyup of Enter or Space has just been handled
KeyActivation ==
  /\ Len(hist) >= 1
  /\ Last.event.type = "keyup"
  /\ Last.event.key \in {"Enter", "Spacebar", " "}
  /\ AllEnabled

\* the record dispatched exactly one TapEvent, a tap on the native event's
\* innermost target
OneTapOnTarget(r) ==
  /\ OutTypes(r) = <<"tap">>
  /\ r.out[1].target = r.event.target

\* the keyup handler did nothing
KeyUpIgnored(r) ==
  /\ r.clicks = <<>>
  /\ "keyup" \notin r.prevented
  /\ r.out = <<>>

\* C5 as stated: the keyup on a role-button element that is not natively
\* activatable prevents the key event's default and yields exactly one tap on
\* the element; on a native button it clicks nothing, prevents nothing and
\* dispatches no tap.
C5_AsStated ==
  KeyActivation =>
    LET t == Last.event.target
    IN /\ (MatchesRoleButton(t) /\ ~MatchesNative(t))
            => "keyup" \in Last.prevented /\ OneTapOnTarget(Last)
       /\ MatchesNative(t) => KeyUpIgnored(Last)

\* C5 (amended): the keyup on a role-button element that is not natively
\* activatable prevents the key event's default and clicks the element once;
\* the click yields exactly one tap on the element, unless the user agent is
\* Trident and the click is a PointerEvent: then no tap is dispatched.  On a
\* native button the keyup clicks nothing, prevents nothing and dispatches
\* no tap.
C5_KeyboardActivation ==
  KeyActivation =>
    LET t == Last.event.target
    IN /\ (MatchesRoleButton(t) /\ ~MatchesNative(t))
            => /\ "keyup" \in Last.prevented
               /\ Len(Last.clicks) = 1
               /\ Last.clicks[1].target = t
               /\ IF isIE /\ Last.clicks[1].class = "PointerEvent"
                  THEN Last.out = <<>>
                  ELSE OneTapOnTarget(Last)
       /\ MatchesNative(t) => KeyUpIgnored(Last)

C5_Witness ==
  /\ KeyActivation
  /\ MatchesRoleButton(Last.event.target)
  /\ ~MatchesNative(Last.event.target)
  /\ "keyup" \in Last.prevented
  /\ OneTapOnTarget(Last)

\* the type of the native event a tap of the record originates from: the
\* record's own event, or the click that a keyup's handler dispatched
Originator(r) == IF r.event.type = "keyup" THEN "click" ELSE r.event.type

\* a listener prevented the default of a tap the record dispatched
TapPrevented(r) ==
  \E j \in 1..Len(r.out) :
    r.out[j].event.type = "tap" /\ r.out[j].defaultPrevented

\* C6 as stated: when a listener prevents the default of a tap, the default
\* of the originating mouseup, touchend or click is prevented too.
C6_AsStated ==
  (Len(hist) >= 1 /\ TapPrevented(Last)) => Originator(Last) \in Last.prevented

\* C6 (amended): when a listener prevents the default of a tap, the default
\* of the originating native event is prevented too when that event is the
\* mouseup of a mouse tap or the click of a keyboard activation; the source
\* of a touch tap is the Touch, not the touchend event, and the default of
\* the touchend is not prevented.
C6_CancelPropagates ==
  (Len(hist) >= 1 /\ TapPrevented(Last)) =>
    IF Last.event.type = "touchend"
    THEN Last.prevented = {}
    ELSE Originator(Last) \in {"mouseup", "click"}
         /\ Originator(Last) \in Last.prevented

C6_Witness ==
  /\ Len(hist) >= 1
  /\ TapPrevented(Last)
  /\ Last.event.type = "mouseup"
  /\ "mouseup" \in Last.prevented

\* C7: an installation after the first registers no listeners, keeps no
\* state and leaves the target's properties as they are; only the first
\* instance ever dispatches, so a mouse tap and a touch tap still yield
\* exactly one tap.
C7_SecondInstallNoOp ==
  /\ \A i \in 2..Len(insts) :
       /\ insts[i] = Closure(FALSE, FALSE, FALSE, FALSE)
       /\ found[i] = IF i < Len(insts) THEN found[i + 1] ELSE props
  /\ Len(hist) >= 1 =>
       /\ \A j \in 1..Len(Last.out) : Last.out[j].by = 1
       /\ (/\ Len(hist) = 2
           /\ Types(hist) \in {<<"mousedown", "mouseup">>, <<"touchstart", "touchend">>}
           /\ SameTarget(Prev, Last)
           /\ Last.event.type = "touchend" => SameTouch(Prev, Last)
           /\ insts[1].onTap)
          => Count(Last, "tap") = 1

C7_Witness ==
  /\ Len(insts) >= 2
  /\ insts[1].listening
  /\ Len(hist) = 2
  /\ Types(hist) = <<"mousedown", "mouseup">>
  /\ SameTarget(Prev, Last)
  /\ Count(Last, "tap") = 1

\* the on-event property of a TapEvent type
PropOf(type) ==
  CASE type = "tap" -> "ontap"
    [] type = "tapstart" -> "ontapstart"
    [] type = "tapend" -> "ontapend"

\* some listening instance found the property absent when it was installed
Unclaimed(name) ==
  \E i \in 1..Len(insts) : insts[i].listening /\ ~In(name, found[i])

\* C8: an instance never dispatches a type whose on-event property the
\* target already had when the instance was installed, and it still
\* dispatches the other types: tapstart at a mousedown from idle, tapend at a
\* mouseup from idle, tap at a keyboard click.
C8_ClaimedTypeNeverDispatched ==
  Len(hist) >= 1 =>
    /\ \A j \in 1..Len(Last.out) :
         ~In(PropOf(Last.out[j].event.type), found[Last.out[j].by])
    /\ (Last.event.type = "mousedown" /\ Last.idle /\ Unclaimed("ontapstart"))
         => Count(Last, "tapstart") = 1
    /\ (Last.event.type = "mouseup" /\ Last.idle /\ Unclaimed("ontapend"))
         => Count(Last, "tapend") = 1
    /\ (/\ Last.event.type = "click"
        /\ Last.event.detail = 0
        /\ ~(isIE /\ Last.event.class = "PointerEvent")
        /\ Unclaimed("ontap"))
         => Count(Last, "tap") = 1

C8_Witness ==
  /\ Len(hist) = 2
  /\ Types(hist) = <<"mousedown", "mouseup">>
  /\ SameTarget(Prev, Last)
  /\ In("ontap", found[1])
  /\ ~In("ontapend", found[1])
  /\ OutTypes(Last) = <<"tapend">>

\* C9: after a touchend has been handled, on whatever path the handler was
\* left, currentTouch is -1 in every listening instance.
C9_TouchEndResetsTouch ==
  (Len(hist) >= 1 /\ Last.event.type = "touchend")
  => \A i \in 1..Len(insts) : insts[i].listening => insts[i].currentTouch = -1

\* a touchend without touch data that threw, right after a touchstart
C9_Witness ==
  /\ Len(hist) = 2
  /\ Types(hist) = <<"touchstart", "touchend">>
  /\ Last.event.changedTouches = <<>>
  /\ Last.threw
  /\ insts[1].currentTouch = -1

\* the step in which the listeners handle a touchend on t whose
\* changedTouches has no first entry
MalformedTouchEnd(t) ==
  /\ Listening
  /\ Fire(TouchEvent("touchend", t, <<>>), "")

SuppressionUnchanged ==
  \A i \in 1..Len(insts) : insts'[i].lastTapTarget = insts[i].lastTapTarget

\* C10 as stated: a touchend without touch data is absorbed: no error
\* escapes, no tap is dispatched, the suppression flag is unchanged.
C10_AsStated ==
  [][\A t \in Elements :
       MalformedTouchEnd(t) =>
         /\ ~Last'.threw
         /\ Count(Last', "tap") = 0
         /\ SuppressionUnchanged]_vars

\* C10 (amended): a touchend without touch data dispatches nothing, leaves
\* the suppression flag unchanged and resets currentTouch, but it is not
\* absorbed: a TypeError leaves the listener whenever the stored touchstart
\* path is not empty (a touchstart has been handled); it completes normally
\* only before any touchstart.
C10_MalformedTouchEnd ==
  [][\A t \in Elements :
       MalformedTouchEnd(t) =>
         /\ Last'.out = <<>>
         /\ SuppressionUnchanged
         /\ \A i \in 1..Len(insts) :
              insts[i].listening => insts'[i].currentTouch = -1
         /\ Last'.threw <=>
              \E i \in 1..Len(insts) :
                insts[i].listening /\ insts[i].touchEventPath # <<>>]_vars

C10_Witness ==
  /\ Len(hist) = 2
  /\ Types(hist) = <<"touchstart", "touchend">>
  /\ Last.event.changedTouches = <<>>
  /\ Last.threw
  /\ Last.out = <<>>

\* the identifier of the record's first changed touch
TouchIdOf(r) == r.event.changedTouches[1].identifier

\* hist[k] is a touchstart that arrives while a touch with another
\* identifier is active
SecondTouch(k) ==
  /\ k \in 1..Len(hist)
  /\ hist[k].event.type = "touchstart"
  /\ hist[k].before[1].currentTouch # -1
  /\ hist[k].before[1].currentTouch # TouchIdOf(hist[k])

\* hist[k + 1] is the touchend of the touch with identifier id
TouchEndOf(k, id) ==
  /\ k + 1 <= Len(hist)
  /\ hist[k + 1].event.type = "touchend"
  /\ hist[k + 1].event.changedTouches # <<>>
  /\ TouchIdOf(hist[k + 1]) = id

\* C11 as stated: a second touchstart while a touch is active leaves the
\* tracked identifier and the stored path unchanged, and the touchend of the
\* first touch still dispatches a tap.
C11_AsStated ==
  \A k \in 1..Len(hist) :
    SecondTouch(k) =>
      /\ hist[k].after[1].currentTouch = hist[k].before[1].currentTouch
      /\ hist[k].after[1].touchEventPath = hist[k].before[1].touchEventPath
      /\ TouchEndOf(k, hist[k].before[1].currentTouch)
           => Count(hist[k + 1], "tap") = 1

\* C11 (amended): a second touchstart with another identifier while a touch
\* is active replaces the tracked identifier and the stored touch-start
\* path by its own and dispatches a tapstart; the touchend of the first
\* touch then dispatches a tapend and no tap, the touchend of the second
\* touch a tapend and a tap.
C11_SecondTouchTakesOver ==
  \A k \in 1..Len(hist) :
    SecondTouch(k) =>
      /\ hist[k].after[1].currentTouch = TouchIdOf(hist[k])
      /\ hist[k].after[1].touchEventPath = composedPath(hist[k].event)
      /\ OutTypes(hist[k]) = <<"tapstart">>
      /\ TouchEndOf(k, hist[k].before[1].currentTouch)
           => OutTypes(hist[k + 1]) = <<"tapend">>
      /\ TouchEndOf(k, TouchIdOf(hist[k]))
           => OutTypes(hist[k + 1]) = <<"tapend", "tap">>

C11_Witness ==
  /\ Len(hist) = 3
  /\ SecondTouch(2)
  /\ ~SameTarget(hist[1], hist[2])
  /\ TouchEndOf(2, TouchIdOf(hist[1]))
  /\ OutTypes(hist[3]) = <<"tapend">>

\* the coordinates and modifier flags a TapEvent has to carry for a source
Carries(tapEvent, source) ==
  /\ PositionsOf(tapEvent) = source.pos
  /\ MetaKeysOf(tapEvent) = IF source.keys # <<>> THEN source.keys[1] ELSE NoKeys

\* the info the listeners of a native event hand to dispatchTapOnTarget:
\* the event itself, or its first changed touch
InfoOf(event) ==
  IF event.class = "TouchEvent" THEN First(event.changedTouches) ELSE event

\* the sources the dispatches of the record can have: its native event and
\* the native event of the page's listener
SourcesOf(r) ==
  {SourceOf(InfoOf(r.event))}
    \cup (IF r.page = <<>> THEN {} ELSE {SourceOf(InfoOf(r.page[1].event))})

\* C12: every dispatched TapEvent carries the six coordinates of the source
\* of its own dispatch and that source's modifier flags, all four false for
\* a touch; the source is the native event being handled (or its touch) or,
\* inside a nested dispatch, the native event the page's listener
\* dispatched, and without a nested dispatch it is the event being handled.
C12_TapEventCarriesOwnSource ==
  Len(hist) >= 1 =>
    \A j \in 1..Len(Last.out) :
      /\ Carries(Last.out[j].event, Last.out[j].source)
      /\ Last.out[j].source \in SourcesOf(Last)
      /\ ~Last.ran => Carries(Last.out[j].event, SourceOf(InfoOf(Last.event)))

\* a touchend whose tapend reached the page's listener, which dispatched a
\* mouseup: the nested TapEvents carry the mouseup's values, the tap after
\* them the touch's values again
C12_Witness ==
  /\ Len(hist) >= 1
  /\ Last.event.type = "touchend"
  /\ Last.ran
  /\ Last.page[1].event.type = "mouseup"
  /\ Len(Last.out) >= 3
  /\ OutTypes(Last)[1] = "tapend"
  /\ Last.out[2].source.keys # <<>>
  /\ Last.out[Len(Last.out)].event.type = "tap"
  /\ Last.out[Len(Last.out)].source.keys = <<>>
  /\ Last.out[Len(Last.out)].source.pos # Last.out[2].source.pos

\* the last event was a mouseup that found no suppression pending, handled
\* by an instance with tap enabled
UnsuppressedMouseUp ==
  /\ Len(hist) >= 1
  /\ Last.event.type = "mouseup"
  /\ Last.before[1].lastTapTarget = <<>>
  /\ Last.before[1].onTap

\* the path stored by the mousedown listener, as the mouseup found it, and
\* the path of the mouseup
DownPath == Last.before[1].mouseEventPath
UpPath == composedPath(Last.event)

\* the targets of the taps the record dispatched
TapTargets(r) == {r.out[j].target : j \in {k \in 1..Len(r.out) : r.out[k].event.type = "tap"}}

Min(S) == CHOOSE x \in S : \A y \in S : x <= y
Max(S) == CHOOSE x \in S : \A y \in S : x >= y

\* the two paths cut to the length of the shorter one, inner entries dropped
Depth == IF Len(DownPath) < Len(UpPath) THEN Len(DownPath) ELSE Len(UpPath)
DownCut == Suffix(DownPath, Depth)
UpCut == Suffix(UpPath, Depth)

\* the indexes, innermost first, at which both cut paths hold the same
\* element node
SharedIndexes ==
  {j \in 1..Depth : DownCut[j] = UpCut[j] /\ IsElementNode(UpCut[j])}

\* C13 as stated: the tap goes to the first shared element node met when
\* walking from the outermost index inward.
C13_AsStated ==
  (UnsuppressedMouseUp /\ SharedIndexes # {})
  => TapTargets(Last) = {UpCut[Max(SharedIndexes)]}

\* C13 (amended): the walk goes from the innermost index outward: the tap is
\* dispatched on the first index, in innermost-to-outermost order, at which
\* both sequences hold the same element node.
C13_WalkFromInnermost ==
  (UnsuppressedMouseUp /\ SharedIndexes # {})
  => TapTargets(Last) = {UpCut[Min(SharedIndexes)]}

\* mousedown and mouseup on spanC: spanC and divA are both shared
C13_Witness ==
  /\ UnsuppressedMouseUp
  /\ Cardinality(SharedIndexes) = 2
  /\ TapTargets(Last) = {"spanC"}

\* the entry of path p at distance d from its outermost entry
FromRoot(p, d) == p[Len(p) - d]

\* the distances from the root at which both paths hold the same element
\* node
SharedDistances ==
  {d \in 0..(Depth - 1) :
     FromRoot(DownPath, d) = FromRoot(UpPath, d) /\ IsElementNode(FromRoot(UpPath, d))}

\* C14: the paths are compared at equal distance from the root; the stored
\* path is left no longer than the mouseup path, as a suffix of what it was;
\* at most one tap is dispatched, on the shared element node farthest from
\* the root, which is never the outermost entry; without a shared element
\* node there is no tap.
C14_ClosestSharedElement ==
  UnsuppressedMouseUp =>
    /\ Count(Last, "tap") <= 1
    /\ Last.after[1].mouseEventPath = DownCut
    /\ SharedDistances = {} => Count(Last, "tap") = 0
    /\ SharedDistances # {} =>
         /\ Count(Last, "tap") = 1
         /\ TapTargets(Last) = {FromRoot(UpPath, Max(SharedDistances))}
         /\ Max(SharedDistances) > 0

\* a mousedown on spanC and a mouseup on divA around it: the stored path is
\* cut and the tap goes to divA
C14_Witness ==
  /\ UnsuppressedMouseUp
  /\ Len(DownPath) > Len(UpPath)
  /\ Last.after[1].mouseEventPath = UpPath
  /\ TapTargets(Last) = {"divA"}

\* the suppression flag as the last event's listeners found and left it
FlagBefore == Last.before[1].lastTapTarget
FlagAfter == Last.after[1].lastTapTarget

\* the last event set the flag, or set it to another target
FlagSet == FlagAfter # <<>> /\ FlagAfter # FlagBefore

\* the record dispatched a tap for a touch
TouchTap(r) ==
  \E j \in 1..Len(r.out) :
    r.out[j].event.type = "tap" /\ r.out[j].source.keys = <<>>

\* C15 as stated: the flag is set only by a touchend that dispatches a
\* touch tap; the next mouseup clears it and dispatches nothing; a mousedown
\* that finds it set dispatches nothing and no other event clears it; a
\* mouseup that finds it clear dispatches its tapend.
C15_AsStated ==
  Len(hist) >= 1 =>
    /\ FlagSet => Last.event.type = "touchend" /\ TouchTap(Last)
    /\ (Last.event.type = "mouseup" /\ FlagBefore # <<>>)
         => Last.out = <<>> /\ FlagAfter = <<>>
    /\ (Last.event.type # "mouseup" /\ FlagBefore # <<>>) => FlagAfter # <<>>
    /\ (Last.event.type = "mousedown" /\ FlagBefore # <<>>) => Last.out = <<>>
    /\ (Last.event.type = "mouseup" /\ FlagBefore = <<>> /\ Last.before[1].onTapEnd)
         => Count(Last, "tapend") = 1

\* C15 (amended): the flag is set only by a touchend of the tracked touch
\* (its identifier is currentTouch), which dispatches the touch tap when tap
\* is enabled and no tap when it is not; the rest as stated.
C15_SuppressionLifecycle ==
  Len(hist) >= 1 =>
    /\ FlagSet =>
         /\ Last.event.type = "touchend"
         /\ Last.event.changedTouches # <<>>
         /\ TouchIdOf(Last) = Last.before[1].currentTouch
         /\ TouchTap(Last) <=> Last.before[1].onTap
    /\ (Last.event.type = "mouseup" /\ FlagBefore # <<>>)
         => Last.out = <<>> /\ FlagAfter = <<>>
    /\ (Last.event.type # "mouseup" /\ FlagBefore # <<>>) => FlagAfter # <<>>
    /\ (Last.event.type = "mousedown" /\ FlagBefore # <<>>) => Last.out = <<>>
    /\ (Last.event.type = "mouseup" /\ FlagBefore = <<>> /\ Last.before[1].onTapEnd)
         => Count(Last, "tapend") = 1

\* a mouseup that clears the flag and dispatches nothing although the
\* stored mousedown path and its own path share their innermost element
C15_Witness ==
  /\ Len(hist) >= 1
  /\ Last.event.type = "mouseup"
  /\ FlagBefore # <<>>
  /\ FlagAfter = <<>>
  /\ Last.out = <<>>
  /\ Last.before[1].onTap
  /\ DownPath = UpPath

\* how many TapEvents of the type the first k events of the run dispatched
RECURSIVE CountUpTo(_, _)
CountUpTo(type, k) ==
  IF k = 0 THEN 0 ELSE CountUpTo(type, k - 1) + Count(hist[k], type)

\* how many TapEvents of the type were dispatched before the j-th TapEvent
\* of the k-th event
CountBefore(type, k, j) ==
  CountUpTo(type, k - 1)
    + Cardinality({n \in 1..(j - 1) : hist[k].out[n].event.type = type})

\* hist[n] is the first mouseup after hist[k]
NextMouseUp(k, n) ==
  /\ n \in (k + 1)..Len(hist)
  /\ hist[n].event.type = "mouseup"
  /\ \A m \in (k + 1)..(n - 1) : hist[m].event.type # "mouseup"

\* hist[n] is the first touchend after hist[k] of the touch of hist[k]
NextTouchEnd(k, n) ==
  /\ n \in (k + 1)..Len(hist)
  /\ hist[n].event.type = "touchend"
  /\ SameTouch(hist[k], hist[n])
  /\ \A m \in (k + 1)..(n - 1) :
       ~(hist[m].event.type = "touchend" /\ SameTouch(hist[k], hist[m]))

\* C16 as stated: in every run, every tapend comes after a tapstart that no
\* earlier tapend has closed, and the tapstart of a mousedown or touchstart
\* is closed by a tapend at the next mouseup, or at the next touchend of
\* that touch.
C16_AsStated ==
  AllEnabled =>
    /\ \A k \in 1..Len(hist) : \A j \in 1..Len(hist[k].out) :
         hist[k].out[j].event.type = "tapend"
           => CountBefore("tapstart", k, j) > CountBefore("tapend", k, j)
    /\ \A k \in 1..Len(hist) : \A n \in 1..Len(hist) :
         /\ (/\ hist[k].event.type = "mousedown"
             /\ Count(hist[k], "tapstart") = 1
             /\ NextMouseUp(k, n))
              => Count(hist[n], "tapend") = 1
         /\ (/\ hist[k].event.type = "touchstart"
             /\ Count(hist[k], "tapstart") = 1
             /\ NextTouchEnd(k, n))
              => Count(hist[n], "tapend") = 1

\* hist[k+1..n-1] are touchmoves
OnlyMovesBetween(k, n) ==
  \A m \in (k + 1)..(n - 1) : hist[m].event.type = "touchmove"

\* C16 (amended): with all capabilities enabled, tapstart and tapend bracket
\* a gesture that no other event interleaves: a mousedown from idle
\* dispatches a tapstart and the mouseup right after it a tapend; a
\* touchstart dispatches a tapstart and the touchend of that touch, right
\* after it or after touchmoves only, a tapend.
C16_BracketWithoutInterleaving ==
  AllEnabled =>
    \A k \in 1..Len(hist) :
      /\ (hist[k].event.type = "mousedown" /\ hist[k].idle)
           => /\ OutTypes(hist[k]) = <<"tapstart">>
              /\ (k < Len(hist) /\ hist[k + 1].event.type = "mouseup")
                   => /\ hist[k + 1].out # <<>>
                      /\ OutTypes(hist[k + 1])[1] = "tapend"
                      /\ Count(hist[k + 1], "tapend") = 1
      /\ hist[k].event.type = "touchstart"
           => /\ OutTypes(hist[k]) = <<"tapstart">>
              /\ \A n \in (k + 1)..Len(hist) :
                   (NextTouchEnd(k, n) /\ OnlyMovesBetween(k, n))
                     => /\ hist[n].out # <<>>
                        /\ OutTypes(hist[n])[1] = "tapend"
                        /\ Count(hist[n], "tapend") = 1

C16_Witness ==
  /\ Len(hist) = 3
  /\ Types(hist) = <<"touchstart", "touchmove", "touchend">>
  /\ NextTouchEnd(1, 3)
  /\ ~SameTarget(hist[1], hist[3])
  /\ CountUpTo("tapstart", 3) = 1
  /\ CountUpTo("tapend", 3) = 1

\* hist[k] is a mousedown whose path the listener stored
Accepted(k) ==
  /\ hist[k].event.type = "mousedown"
  /\ hist[k].before[1].lastTapTarget = <<>>
  /\ hist[k].before[1].currentTouch = -1
  /\ hist[k].after[1].mouseEventPath = composedPath(hist[k].event)

\* C17: a mouseup dispatches a tap only if a mousedown was accepted since
\* the mouseup before it (or since the start of the run).
C17_AsStated ==
  \A n \in 1..Len(hist) :
    (hist[n].event.type = "mouseup" /\ Count(hist[n], "tap") >= 1)
    => \E k \in 1..(n - 1) :
         /\ Accepted(k)
         /\ \A m \in (k + 1)..(n - 1) : hist[m].event.type # "mouseup"

\* C18: after the touchstart and touchend of a touch tap on an element, with
\* no mouseup since, a mousedown and a mouseup on that element dispatch
\* tapstart, then tapend and tap.
C18_AsStated ==
  (TouchThenMouse /\ Count(hist[2], "tap") = 1)
  => /\ OutTypes(hist[3]) = <<"tapstart">>
     /\ Len(hist) = 4 => OutTypes(hist[4]) = <<"tapend", "tap">>

\* the target's properties right after the i-th applyEvent call
PropsAfter(i) == IF i < Len(found) THEN found[i + 1] ELSE props

\* C19: an applyEvent call that finds some but not all of the on-event
\* properties leaves the ones it finds as they are and creates the others
\* with the value null.
C19_AsStated ==
  \A i \in 1..Len(insts) :
    (/\ \E n \in PropNames : In(n, found[i])
     /\ \E n \in PropNames : ~In(n, found[i]))
    => \A n \in PropNames :
         PropsAfter(i)[n] = IF In(n, found[i]) THEN found[i][n] ELSE "null"

\* pixel p lies inside the content range of lane i
InContent(i, p) ==
  getContentStart(track, i) <= 2 * p /\ 2 * p < getContentEnd(track, i)

\* C20: for an initialised Track with any margin >= 0, hitTest(p) is i
\* exactly when p lies inside lane i's content range, and -1 exactly when p
\* lies in no lane's content range.
C20_AsStated ==
  hit # <<>> =>
    LET p == hit[1].mousePixel
        lanes == 0..(laneCount(track) - 1)
    IN /\ \A i \in lanes : hit[1].index = i <=> InContent(i, p)
       /\ hit[1].index = -1 <=> \A i \in lanes : ~InContent(i, p)

====
